---- MODULE Spec2Model ----
(***************************************************************************)
(* State-machine model of src/cpa.py: the stack-and-register session of    *)
(* init() and step().  Python objects live in a heap (identity matters:    *)
(* the stack and the register hold references, series_assign mutates a     *)
(* table in place or a copy of it).  One action, Step, models one call of  *)
(* step(): the model response, the tool dispatch, the result               *)
(* classification, the snapshot, the image capture and the two appends.    *)
(* An exception that step() does not catch leaves the state as it was at   *)
(* the raise and is recorded in `raised`.                                  *)
(***************************************************************************)
EXTENDS Integers, Sequences, FiniteSets, TLC

\* ------------------------------------------------------------------ bounds
MaxStack == 3       \* calls that would grow the stack beyond this are not explored
MaxSteps == 3       \* number of step() calls explored

\* ------------------------------------------------------------ Python values
None == 0                           \* the None reference
NumObj == MaxStack + 2              \* heap cells: stack + register + one result
ObjIds == 1..NumObj

\* Data is abstract.  A table's data is <<column a, column c, index>>: a column
\* is "absent", holds "None", or holds values ("x"); the index is "range" (the
\* unique row labels read_csv gives) or "dup" (row labels that repeat).  A
\* series' data is <<values, index>>.
Cols == <<"a", "c">>
IndexOf(obj) == obj.data[Len(obj.data)]
NoData == <<>>
FreeCell == [kind |-> "free", data |-> NoData]

ColPos(name) == IF \E i \in 1..Len(Cols) : Cols[i] = name
                THEN CHOOSE i \in 1..Len(Cols) : Cols[i] = name
                ELSE 0

\* pd.read_csv(csv_file): a table with column a and no column c.
InitialFrame == [kind |-> "DataFrame", data |-> <<"x", "absent", "range">>]

IsTable(h, id) == id # None /\ h[id].kind \in {"DataFrame", "DataFrameGroupBy"}
IsSeries(h, id) == id # None /\ h[id].kind = "Series"

\* The smallest free heap cell: where the next object is created.
FreshId(h) == CHOOSE i \in ObjIds :
                /\ h[i].kind = "free"
                /\ \A j \in ObjIds : h[j].kind = "free" => i <= j

Range(s) == {s[i] : i \in 1..Len(s)}

\* Reference counting: an object no longer referenced by the stack or the
\* register is released.
Collect(h, stk, ser) == [i \in ObjIds |->
                           IF i \in Range(stk) \/ i = ser THEN h[i] ELSE FreeCell]

\* obj.__repr__(): a table or a series prints its data, a grouped table prints
\* its type and address, None prints "None".
Text(kind, data, at) == [kind |-> kind, data |-> data, at |-> at]
Repr(h, id) == IF id = None THEN Text("NoneType", NoData, 0)
               ELSE IF h[id].kind = "DataFrameGroupBy"
                    THEN Text("DataFrameGroupBy", NoData, id)
                    ELSE Text(h[id].kind, h[id].data, 0)

\* e.__repr__() of a caught exception
ExcRepr(e) == Text(e, NoData, 0)
ExcNames == {"IndexError", "KeyError", "AttributeError", "TypeError", "ValueError"}

\* ------------------------------------------------- the data library (pandas)
\* A tool call names a member function by a dotted path.  A function string is
\* modelled as its sequence of tokens, a token being a name or the separator
\* ".", so that <<"plot", ".", "bar">> stands for "plot.bar".
Dot == "."

RECURSIVE Split(_)
\* function.split(".")
Split(s) == IF \A i \in 1..Len(s) : s[i] # Dot
            THEN <<s>>
            ELSE LET i == CHOOSE k \in 1..Len(s) :
                            s[k] = Dot /\ \A j \in 1..(k-1) : s[j] # Dot
                 IN <<SubSeq(s, 1, i-1)>> \o Split(SubSeq(s, i+1, Len(s)))

RECURSIVE Join(_)
\* ".".join(path)
Join(p) == IF Len(p) = 0 THEN <<>>
           ELSE IF Len(p) = 1 THEN p[1]
           ELSE p[1] \o <<Dot>> \o Join(Tail(p))

\* Values that attribute lookup passes around: a heap object, None, a bound
\* method, an accessor (df.plot), or a raised exception.
Ref(id) == [tag |-> IF id = None THEN "none" ELSE "obj", id |-> id, name |-> ""]
Method(id, name) == [tag |-> "method", id |-> id, name |-> name]
Accessor(id, name) == [tag |-> "accessor", id |-> id, name |-> name]
Raise(e) == [tag |-> "exc", id |-> None, name |-> e]

\* The member functions the model calls, by the kind of object that has them.
FrameMethods == {"__getitem__", "copy", "groupby", "__iadd__", "insert"}
GroupedMethods == {"__getitem__"}
SeriesMethods == {"take", "to_frame"}

\* getattr(base, name): name is one path segment.
GetAttr(h, base, seg) ==
    IF base.tag # "exc" /\ Len(seg) = 1
    THEN LET name == seg[1]
             kind == IF base.tag = "obj" THEN h[base.id].kind ELSE base.tag
         IN CASE kind = "DataFrame" /\ name \in FrameMethods -> Method(base.id, name)
              [] kind = "DataFrame" /\ name = "plot" -> Accessor(base.id, "plot")
              [] kind = "DataFrameGroupBy" /\ name \in GroupedMethods -> Method(base.id, name)
              [] kind = "Series" /\ name \in SeriesMethods -> Method(base.id, name)
              [] kind = "accessor" /\ name = "bar" -> Method(base.id, "plot.bar")
              [] OTHER -> Raise("AttributeError")
    ELSE IF base.tag = "exc" THEN base ELSE Raise("AttributeError")

RECURSIVE _resolve(_, _, _)
\* _resolve(base, function): chained attribute access along the dotted path.
_resolve(h, base, function) ==
    LET path == Split(function)
        new_base == GetAttr(h, base, path[1])
    IN IF new_base.tag = "exc" THEN new_base
       ELSE IF Len(path) = 1 THEN new_base
       ELSE _resolve(h, new_base, Join(Tail(path)))

\* Keyword arguments: a sequence of <<name, value>> pairs.
KwNames(kwargs) == {kwargs[i][1] : i \in 1..Len(kwargs)}
KwArg(kwargs, name) == kwargs[CHOOSE i \in 1..Len(kwargs) : kwargs[i][1] = name][2]

\* What a call of a library function gives: an exception, or a returned value
\* that is a new object (obj), the target itself (in-place operators return
\* self) or something that is neither a table nor a series (text is its
\* repr); data is the target's data after the call (insert works in place);
\* fig tells whether the call opened a figure in the plotting backend.
Outcome(exc, ret, obj, text, data, fig) ==
    [exc |-> exc, ret |-> ret, obj |-> obj, text |-> text, data |-> data, fig |-> fig]
Raised(e, data) == Outcome(e, "none", FreeCell, ExcRepr(e), data, FALSE)
New(kind, newdata, data) ==
    Outcome("none", "new", [kind |-> kind, data |-> newdata], Text(kind, newdata, 0), data, FALSE)
Other(kind, data, fig) == Outcome("none", "other", FreeCell, Text(kind, NoData, 0), data, fig)

\* callable(**kwargs) for the callables _resolve can return.
CallFunction(h, f, kwargs) ==
    LET d == h[f.id].data
        kind == h[f.id].kind
        key == IF "key" \in KwNames(kwargs) THEN KwArg(kwargs, "key") ELSE ""
    IN CASE f.tag = "accessor" -> Other("Axes", d, TRUE)
         [] f.tag = "method" /\ f.name = "plot.bar" -> Other("Axes", d, TRUE)
         [] f.tag = "method" /\ f.name = "__getitem__" ->
              IF KwNames(kwargs) # {"key"} THEN Raised("TypeError", d)
              ELSE IF ColPos(key) = 0 \/ d[ColPos(key)] = "absent" THEN Raised("KeyError", d)
              ELSE IF kind = "DataFrame" THEN New("Series", <<d[ColPos(key)], d[3]>>, d)
              ELSE Other("SeriesGroupBy", d, FALSE)
         [] f.tag = "method" /\ f.name = "copy" -> New("DataFrame", d, d)
         [] f.tag = "method" /\ f.name = "groupby" ->
              IF KwNames(kwargs) # {"by"} THEN Raised("TypeError", d)
              ELSE IF ColPos(KwArg(kwargs, "by")) = 0
                      \/ d[ColPos(KwArg(kwargs, "by"))] = "absent" THEN Raised("KeyError", d)
              ELSE New("DataFrameGroupBy", d, d)
         [] f.tag = "method" /\ f.name = "__iadd__" ->
              IF KwNames(kwargs) # {"other"} THEN Raised("TypeError", d)
              ELSE Outcome("none", "self", FreeCell, Text(kind, d, 0), d, FALSE)
         [] f.tag = "method" /\ f.name = "insert" ->
              IF KwNames(kwargs) # {"column"} THEN Raised("TypeError", d)
              ELSE IF ColPos(KwArg(kwargs, "column")) = 0 THEN Raised("KeyError", d)
              ELSE IF d[ColPos(KwArg(kwargs, "column"))] # "absent" THEN Raised("ValueError", d)
              ELSE Other("NoneType", [d EXCEPT ![ColPos(KwArg(kwargs, "column"))] = "None"], FALSE)
         [] f.tag = "method" /\ f.name = "take" ->
              \* take(indices=[0, 0]): the first row twice, so its label repeats
              IF KwNames(kwargs) # {"indices"} THEN Raised("TypeError", d)
              ELSE New("Series", <<d[1], "dup">>, d)
         [] f.tag = "method" /\ f.name = "to_frame" ->
              New("DataFrame", <<d[1], "absent", d[2]>>, d)
         [] OTHER -> Raised("TypeError", NoData)

\* ----------------------------------------------------------------- the state
VARIABLES
    messages,    \* State.messages: the conversation history
    stack,       \* State.stack: references to tables, bottom first
    series,      \* State.series: the register, a reference or None
    steps,       \* State.steps: the step records
    tool_call,   \* State.tool_call
    heap,        \* the objects the references point to
    figs,        \* plt.get_fignums(): the figures open in the plotting backend
    backend,     \* what plt.show() does to the open figures in the backend in
                 \* use: "closes" or "keeps" them; "unset" until the first show
    raised,      \* the exception step() let escape, or "none"
    last,        \* history variable: the state before the latest step and what it did
    before       \* history variable: `last` as it was before the latest step

vars == <<messages, stack, series, steps, tool_call, heap, figs, backend, raised, last,
          before>>

\* A dict (tool_input, kwargs) is a sequence of <<key, value>> pairs.
Has(dict, key) == \E i \in 1..Len(dict) : dict[i][1] = key
Get(dict, key) == dict[CHOOSE i \in 1..Len(dict) : dict[i][1] = key][2]

\* list[::-1]
Reverse(s) == [i \in 1..Len(s) |-> s[Len(s) + 1 - i]]

\* Mutant: the blocks are labelled from the top, the top being 0.
stack_repr_TopRelative(h, stk) ==
    Reverse([i \in 1..Len(stk) |-> [n |-> Len(stk) - i, text |-> Repr(h, stk[i])]])

\* The stack-and-register snapshot of init() and step(): one block per stack
\* element, labelled with n of enumerate(stack), the list then reversed;
\* followed by the register's repr.
stack_repr(h, stk) == Reverse([i \in 1..Len(stk) |-> [n |-> i - 1, text |-> Repr(h, stk[i])]])
Snapshot(h, stk, ser) == [stack |-> stack_repr(h, stk), register |-> Repr(h, ser)]

\* list[i] of Python, on a list of length n: the 0-based position, or -1 for
\* an IndexError.  Negative i counts from the end.
PyIndex(n, i) == IF 0 <= i /\ i < n THEN i
                 ELSE IF i < 0 /\ -n <= i THEN n + i
                 ELSE -1

\* The record kept in `last`: the stack, heap, register and figures before the
\* step; the kind of step ("text" or the tool name) and the tool input; the
\* object the operation was applied to; the reference and the kind of what the
\* call returned; the exception caught; the result text.
History(stk, h, ser, fg, kind, input, target, result, result_kind, caught, res) ==
    [stack |-> stk, heap |-> h, series |-> ser, figs |-> fg, kind |-> kind,
     input |-> input, target |-> target, result |-> result,
     result_kind |-> result_kind, caught |-> caught, res |-> res]
NoLast == History(<<>>, [i \in ObjIds |-> FreeCell], None, {}, "init", <<>>, None, None,
                  "none", "none", Text("NoneType", NoData, 0))

\* init(user_request, csv_file)
Init ==
    /\ heap = [i \in ObjIds |-> IF i = 1 THEN InitialFrame ELSE FreeCell]
    /\ stack = <<1>>
    /\ series = None
    /\ steps = <<>>
    /\ tool_call = TRUE
    /\ messages = << [role |-> "user",
                      content |-> << [type |-> "text",
                                      text |-> Snapshot(heap, <<1>>, None)] >>] >>
    /\ figs = {}
    /\ backend = "unset"
    /\ raised = "none"
    /\ last = NoLast
    /\ before = NoLast

\* ------------------------------------------------------- the tool dispatch
\* What the dispatch of one tool call leaves behind: the stack, heap and
\* register as they are when the branch ends or raises; res, the result text;
\* result, the reference in _res (None when the call produced no object);
\* exc, the exception that escapes step(), or "none"; caught, the exception the
\* branch caught, or "none"; fig, whether a figure was opened; target, the
\* object the operation was applied to; kind, the type of what the call
\* returned ("other" for what is neither a table nor a series).
Exec(stk, h, ser, res, result, exc, caught, fig, target) ==
    [stack |-> stk, heap |-> h, series |-> ser, res |-> res, result |-> result,
     kind |-> IF exc # "none" \/ caught # "none" THEN "none"
              ELSE IF result = None THEN "other" ELSE h[result].kind,
     exc |-> exc, caught |-> caught, fig |-> fig, target |-> target]

NoText == Text("NoneType", NoData, 0)
Escapes(stk, h, ser, e, target) == Exec(stk, h, ser, NoText, None, e, "none", FALSE, target)
Caught(stk, h, ser, e, target) == Exec(stk, h, ser, ExcRepr(e), None, "none", e, FALSE, target)

\* Mutant: pop(0), which removes the bottom element.
ExecPop_Bottom(stk, h, ser) ==
    IF Len(stk) = 0
    THEN Escapes(stk, h, ser, "IndexError", None)
    ELSE Exec(Tail(stk), h, ser, Repr(h, stk[1]), None, "none", "none", FALSE, stk[1])

\* tool_name == "pop":  res = state.stack.pop().__repr__()
ExecPop(stk, h, ser) ==
    IF Len(stk) = 0
    THEN Escapes(stk, h, ser, "IndexError", None)
    ELSE Exec(SubSeq(stk, 1, Len(stk) - 1), h, ser, Repr(h, stk[Len(stk)]),
              None, "none", "none", FALSE, stk[Len(stk)])

\* Mutant: the test of in_place without its "not".
CopiesFirst_Inverted(input) == Has(input, "in_place") /\ Get(input, "in_place")

\* if "in_place" in tool_input and not tool_input["in_place"]
CopiesFirst(input) == Has(input, "in_place") /\ ~Get(input, "in_place")

\* state.stack[-1][tool_input["column_name"]] = state.series, on the stack
\* stk: the right-hand side is read first, then the top table, then the key,
\* then the table's __setitem__ is called.  A grouped table has no
\* __setitem__ (TypeError); a table aligns the series to its own index, which
\* fails (ValueError) for a series whose index has repeated labels and is not
\* the table's index.
SetColumn(stk, h, ser, input) ==
    IF Len(stk) = 0 THEN Escapes(stk, h, ser, "IndexError", None)
    ELSE LET top == stk[Len(stk)]
         IN IF ~Has(input, "column_name") THEN Escapes(stk, h, ser, "KeyError", top)
            ELSE IF h[top].kind # "DataFrame" \/ ColPos(Get(input, "column_name")) = 0
                 THEN Escapes(stk, h, ser, "TypeError", top)
            ELSE IF ser # None /\ IndexOf(h[ser]) = "dup" /\ IndexOf(h[top]) # "dup"
                 THEN Escapes(stk, h, ser, "ValueError", top)
            ELSE LET value == IF ser = None THEN "None" ELSE h[ser].data[1]
                     h2 == [h EXCEPT ![top].data[ColPos(Get(input, "column_name"))] = value]
                 IN Exec(stk, h2, ser, Repr(h2, top), None, "none", "none", FALSE, top)

\* Mutant: the top table is pushed again without .copy().
ExecSeriesAssign_NoCopy(stk, h, ser, input) ==
    IF CopiesFirst(input)
    THEN IF Len(stk) = 0 THEN Escapes(stk, h, ser, "IndexError", None)
         ELSE SetColumn(Append(stk, stk[Len(stk)]), h, ser, input)
    ELSE SetColumn(stk, h, ser, input)

\* tool_name == "series_assign"
ExecSeriesAssign(stk, h, ser, input) ==
    IF CopiesFirst(input)
    THEN IF Len(stk) = 0 THEN Escapes(stk, h, ser, "IndexError", None)
         ELSE LET top == stk[Len(stk)]
                  f == GetAttr(h, Ref(top), <<"copy">>)
              IN IF f.tag = "exc" THEN Escapes(stk, h, ser, f.name, top)
                 ELSE LET o == CallFunction(h, f, <<>>)
                          id == FreshId(h)
                      IN SetColumn(Append(stk, id), [h EXCEPT ![id] = o.obj], ser, input)
    ELSE SetColumn(stk, h, ser, input)

\* _res = _resolve(base, function)(**kwargs); res = _res.__repr__(), inside
\* the try of dataframe_operation and series_operation.
Invoke(stk, h, ser, base, input) ==
    IF ~Has(input, "function") THEN Caught(stk, h, ser, "KeyError", base)
    ELSE LET f == _resolve(h, Ref(base), Get(input, "function"))
         IN IF f.tag = "exc" THEN Caught(stk, h, ser, f.name, base)
            ELSE IF ~Has(input, "kwargs") THEN Caught(stk, h, ser, "KeyError", base)
            ELSE LET o == CallFunction(h, f, Get(input, "kwargs"))
                     h1 == [h EXCEPT ![f.id].data = o.data]
                     id == FreshId(h1)
                 IN CASE o.exc # "none" -> Caught(stk, h, ser, o.exc, base)
                      [] o.exc = "none" /\ o.ret = "new" ->
                           LET h2 == [h1 EXCEPT ![id] = o.obj]
                           IN Exec(stk, h2, ser, Repr(h2, id), id, "none", "none", o.fig, base)
                      [] o.exc = "none" /\ o.ret = "self" ->
                           Exec(stk, h1, ser, Repr(h1, f.id), f.id, "none", "none", o.fig, base)
                      [] OTHER ->
                           Exec(stk, h1, ser, o.text, None, "none", "none", o.fig, base)

\* Mutant: the stack is indexed before the try, so an IndexError escapes.
ExecDataframeOperation_IndexOutsideTry(stk, h, ser, input) ==
    IF ~Has(input, "target_frame") THEN Escapes(stk, h, ser, "KeyError", None)
    ELSE LET p == PyIndex(Len(stk), Get(input, "target_frame"))
         IN IF p < 0 THEN Escapes(stk, h, ser, "IndexError", None)
            ELSE Invoke(stk, h, ser, stk[p + 1], input)

\* tool_name == "dataframe_operation": the target is state.stack[target_frame]
ExecDataframeOperation(stk, h, ser, input) ==
    IF ~Has(input, "target_frame") THEN Caught(stk, h, ser, "KeyError", None)
    ELSE LET p == PyIndex(Len(stk), Get(input, "target_frame"))
         IN IF p < 0 THEN Caught(stk, h, ser, "IndexError", None)
            ELSE Invoke(stk, h, ser, stk[p + 1], input)

\* tool_name == "series_operation": the target is state.series
ExecSeriesOperation(stk, h, ser, input) == Invoke(stk, h, ser, ser, input)

ToolNames == {"pop", "dataframe_operation", "series_operation", "series_assign"}

Dispatch(stk, h, ser, name, input) ==
    CASE name = "pop" -> ExecPop(stk, h, ser)
      [] name = "series_assign" -> ExecSeriesAssign(stk, h, ser, input)
      [] name = "dataframe_operation" -> ExecDataframeOperation(stk, h, ser, input)
      [] name = "series_operation" -> ExecSeriesOperation(stk, h, ser, input)

\* ------------------------------------------------------------------ step()
TextBlock == [type |-> "text", text |-> "t"]
ToolUseBlock(id, name, input) == [type |-> "tool_use", id |-> id, name |-> name, input |-> input]

\* The step's transcript lines (step_texts): label says what the line is.
Line(label, text, input) == [label |-> label, text |-> text, input |-> input]

\* _res.head().__repr__(): the first rows only.
HeadRepr(h, id) == Text(IF h[id].kind = "Series" THEN "Series" ELSE "DataFrame",
                        <<"head">> \o h[id].data, 0)

\* The for loop over message.content: the text lines and the tool call, in
\* block order.  A later tool_use block overwrites an earlier one.
BlockLines(content) ==
    [i \in 1..Len(content) |->
        IF content[i].type = "text"
        THEN Line("text", Text("str", <<content[i].text>>, 0), <<>>)
        ELSE Line(content[i].name, NoText, content[i].input)]
\* Mutant: the type test for a tool_use block never matches.
ToolBlocks_NeverMatches(content) == {i \in 1..Len(content) : FALSE}

ToolBlocks(content) == {i \in 1..Len(content) : content[i].type = "tool_use"}
LastTool(content) == content[CHOOSE i \in ToolBlocks(content) :
                                \A j \in ToolBlocks(content) : j <= i]

NumSteps == Cardinality({i \in 1..Len(messages) : messages[i].role = "assistant"})
Max(S) == CHOOSE x \in S : \A y \in S : y <= x

\* Mutant: only a DataFrame is pushed, a grouped table is dropped.
Classify_GroupedNotPushed(stk, h, ser, result) ==
    IF result # None /\ h[result].kind = "DataFrame"
    THEN <<Append(stk, result), ser, <<Line("Dataframe", HeadRepr(h, result), <<>>)>> >>
    ELSE IF IsSeries(h, result)
    THEN <<stk, result, <<Line("Series", HeadRepr(h, result), <<>>)>> >>
    ELSE <<stk, ser, <<>> >>

\* Mutant: every returned object is pushed, without the isinstance tests.
Classify_NoTypeCheck(stk, h, ser, result) ==
    IF result # None
    THEN <<Append(stk, result), ser, <<Line("Dataframe", HeadRepr(h, result), <<>>)>> >>
    ELSE <<stk, ser, <<>> >>

\* The classification of _res: a table is pushed, a series goes into the
\* register, anything else is not stored.  Gives <<stack, series, lines>>.
Classify(stk, h, ser, result) ==
    IF IsTable(h, result)
    THEN <<Append(stk, result), ser, <<Line("Dataframe", HeadRepr(h, result), <<>>)>> >>
    ELSE IF IsSeries(h, result)
    THEN <<stk, result, <<Line("Series", HeadRepr(h, result), <<>>)>> >>
    ELSE <<stk, ser, <<>> >>

\* A call of step() is explored while no exception has escaped and fewer than
\* MaxSteps calls were made.
Ready == raised = "none" /\ NumSteps < MaxSteps

Backends == {"unset", "closes", "keeps"}

\* What plt.show() may do when the step captured an image: whether it closes
\* the open figures depends on the plotting backend in use (an inline notebook
\* backend closes them, a non-interactive one keeps them), which is the same
\* for the whole session.
Shows(captured) == IF ~captured THEN {backend}
                   ELSE IF backend = "unset" THEN Backends \ {"unset"}
                   ELSE {backend}

\* One call of step(state) in which the model answers with `content`.
Step(content) ==
    LET assistant == [role |-> "assistant", content |-> content]
    IN
    /\ Ready
    /\ before' = last
    /\ IF ToolBlocks(content) = {}
       THEN /\ messages' = Append(messages, assistant)
            /\ tool_call' = FALSE
            /\ last' = History(stack, heap, series, figs, "text", <<>>, None, None,
                                "none", "none", NoText)
            /\ UNCHANGED <<stack, series, steps, heap, figs, backend, raised>>
       ELSE \E c \in {LastTool(content)} :
            \E r \in {Dispatch(stack, heap, series, c.name, c.input)} :
            \E cls \in {Classify(r.stack, r.heap, r.series, r.result)} :
            LET figs1 == IF r.fig THEN figs \cup {c.id} ELSE figs
                caught_lines == IF r.caught = "none" THEN <<>>
                                ELSE <<Line("error", r.res, <<>>)>>
                step_texts == BlockLines(content) \o caught_lines \o cls[3]
                image == IF figs1 = {} THEN 0 ELSE Max(figs1)
                _state == Snapshot(r.heap, cls[1], cls[2])
                msg_content ==
                    (IF image = 0 THEN <<>> ELSE << [type |-> "image", data |-> image] >>)
                    \o << [type |-> "text", text |-> [res |-> r.res, state |-> _state]] >>
                tool_response == << [type |-> "tool_result", tool_use_id |-> c.id,
                                     content |-> msg_content] >>
            IN \E shown \in Shows(image # 0 /\ r.exc = "none") :
               /\ backend' = shown
               /\ r.exc = "none" => Len(cls[1]) <= MaxStack
               /\ tool_call' = TRUE
               /\ last' = History(stack, heap, series, figs, c.name, c.input, r.target,
                                   r.result, r.kind, r.caught, r.res)
               /\ IF r.exc # "none"
                  THEN /\ raised' = r.exc
                       /\ stack' = r.stack
                       /\ series' = r.series
                       /\ heap' = Collect(r.heap, r.stack, r.series)
                       /\ figs' = figs1
                       /\ messages' = Append(messages, assistant)
                       /\ steps' = steps
                  ELSE /\ raised' = "none"
                       /\ stack' = cls[1]
                       /\ series' = cls[2]
                       /\ heap' = Collect(r.heap, cls[1], cls[2])
                       /\ figs' = IF image # 0 /\ shown = "closes" THEN {} ELSE figs1
                       /\ messages' = Append(Append(messages, assistant),
                                             [role |-> "user", content |-> tool_response])
                       /\ steps' = Append(steps, [text |-> step_texts, image |-> image])

\* ------------------------------------------------- what the model may answer
\* series_assign: column_name is required by the tool schema, in_place is
\* optional.
ColumnNameArgs == {<< <<"column_name", "c">> >>}
InPlaceArgs == {<<>>, << <<"in_place", TRUE>> >>, << <<"in_place", FALSE>> >>}
\* dataframe_operation: target_frame is an int; the functions stand for the
\* kinds of member function there are: one returning a series, a new table, a
\* grouped table, its own target (an in-place operator), None after working
\* in place, a chart (by a dotted path), and a name that does not exist.
TargetFrames == {-1, 0, 1}
FrameFunctions ==
    { [function |-> <<"__getitem__">>, kwargs |-> << <<"key", "a">> >>],
      [function |-> <<"copy">>, kwargs |-> <<>>],
      [function |-> <<"groupby">>, kwargs |-> << <<"by", "a">> >>],
      [function |-> <<"__iadd__">>, kwargs |-> << <<"other", 0>> >>],
      [function |-> <<"insert">>, kwargs |-> << <<"column", "c">> >>],
      [function |-> <<"plot", Dot, "bar">>, kwargs |-> <<>>],
      [function |-> <<"nonexistent">>, kwargs |-> <<>>] }
\* series_operation: a function returning a series (with repeated row
\* labels) and one returning a table; both fail on an empty register.
SeriesFunctions ==
    { [function |-> <<"take">>, kwargs |-> << <<"indices", <<0, 0>> >> >>],
      [function |-> <<"to_frame">>, kwargs |-> <<>>] }

\* The content blocks of a response that calls a tool: a text block and the
\* tool_use block (parallel tool use is disabled).
Calling(name, input) == <<TextBlock, ToolUseBlock(NumSteps + 1, name, input)>>

\* The model answers with free text only.
StepText == Ready /\ Step(<<TextBlock>>)

\* The model calls pop.
StepPop == Ready /\ Step(Calling("pop", <<>>))

StepSeriesAssign ==
    /\ Ready
    /\ \E cn \in ColumnNameArgs, ip \in InPlaceArgs :
          Step(Calling("series_assign", cn \o ip))

StepDataframeOperation ==
    /\ Ready
    /\ \E k \in TargetFrames, f \in FrameFunctions :
          Step(Calling("dataframe_operation",
                       << <<"target_frame", k>>, <<"function", f.function>>,
                          <<"kwargs", f.kwargs>> >>))

StepSeriesOperation ==
    /\ Ready
    /\ \E f \in SeriesFunctions :
          Step(Calling("series_operation",
                       << <<"function", f.function>>, <<"kwargs", f.kwargs>> >>))

Next == \/ StepPop
        \/ StepSeriesAssign
        \/ StepDataframeOperation
        \/ StepSeriesOperation
        \/ StepText

Spec == Init /\ [][Next]_vars

\* ============================================================== the claims
\* What the claims speak about, read off the state after a step.
LastMsg == messages[Len(messages)]
Called == last.kind \in ToolNames
\* the latest step's call failed: its exception escaped step() or was caught
Failed == Called /\ (raised # "none" \/ last.caught # "none")
\* the latest step's call ran without any exception
Succeeded == Called /\ raised = "none" /\ last.caught = "none"
\* the history ends with the tool-result turn of the latest call
ResultTurnAppended ==
    /\ LastMsg.role = "user"
    /\ LastMsg.content[1].type = "tool_result"
    /\ LastMsg.content[1].tool_use_id = NumSteps
\* the result text fed back to the model in that turn
ResultText == LET c == LastMsg.content[1].content IN c[Len(c)].text.res
OldLen == Len(last.stack)
OldTop == last.stack[OldLen]
InPlaceIs(b) == Has(last.input, "in_place") /\ Get(last.input, "in_place") = b
\* the value series_assign writes: the register's values, None for an empty register
RegisterValue == IF last.series = None THEN "None" ELSE last.heap[last.series].data[1]
\* the tables the references in ids point to are as they were before the step
Untouched(ids) == \A i \in ids \ {None} : heap[i] = last.heap[i]
WithColumn(obj, name, value) == [obj EXCEPT !.data[ColPos(name)] = value]
ResultIsTable == last.result_kind \in {"DataFrame", "DataFrameGroupBy"}
Operation == last.kind \in {"dataframe_operation", "series_operation"}

\* C1: a dataframe_operation with target_frame = k, 0 <= k < N, on a stack of
\* length N operates on the element at physical index N-1-k (0-based), so
\* target_frame = 0 is the top.  The code indexes state.stack[target_frame]
\* from the bottom, so this fails on a stack of two different tables.
C1_TopRelativeAddressing ==
    (last.kind = "dataframe_operation"
       /\ Get(last.input, "target_frame") \in 0..(OldLen - 1))
    => last.target = last.stack[OldLen - Get(last.input, "target_frame")]

\* C2: a tool call that fails (its error escapes or is caught) leaves the
\* stack, its tables and the register as they were before the call.  Fails
\* for series_assign with in_place = false when the assignment raises after
\* the copy was pushed.
C2_FailedCallNotApplied ==
    Failed => /\ stack = last.stack
              /\ series = last.series
              /\ Untouched(Range(stack) \cup {series})

\* C3: no error of a tool call escapes step(): after every call the step has
\* returned normally and the tool-result turn is the last turn of the history.
\* Fails for pop and series_assign, whose branches have no try.
C3_NoErrorEscapes == Called => (raised = "none" /\ ResultTurnAppended)

C5_OnlyTablesAndSeriesStored ==
    /\ \A i \in 1..Len(stack) : heap[stack[i]].kind \in {"DataFrame", "DataFrameGroupBy"}
    /\ series = None \/ heap[series].kind = "Series"
    /\ (Operation /\ Succeeded /\ last.result_kind = "other") =>
          (stack = last.stack /\ series = last.series)
C5_Witness ==
    /\ Operation /\ Succeeded /\ last.result_kind = "other"
    /\ series # None /\ Len(stack) > 1

\* C6: a series_assign with in_place = false that completes leaves a stack one
\* longer whose new top is a new table equal to the previous top with column
\* column_name set to the register's values; the previous top and every table
\* below it, and the register, are as before.
C6_AssignPushesModifiedCopy ==
    (last.kind = "series_assign" /\ InPlaceIs(FALSE) /\ raised = "none") =>
        /\ Len(stack) = OldLen + 1
        /\ SubSeq(stack, 1, OldLen) = last.stack
        /\ stack[Len(stack)] \notin Range(last.stack)
        /\ heap[stack[Len(stack)]] =
              WithColumn(last.heap[OldTop], Get(last.input, "column_name"), RegisterValue)
        /\ Untouched(Range(last.stack))
        /\ series = last.series /\ Untouched({series})
C6_Witness ==
    /\ last.kind = "series_assign" /\ InPlaceIs(FALSE) /\ raised = "none"
    /\ last.series # None
    /\ Len(stack) = 3

\* C7: a series_assign that omits in_place acts as with in_place = false: it
\* pushes a modified copy and leaves the previous top as it was.  The code
\* copies only when the key is present and false, so an omitted in_place writes
\* into the top table itself.
C7_OmittedInPlaceCopies ==
    (last.kind = "series_assign" /\ ~Has(last.input, "in_place") /\ raised = "none") =>
        /\ Len(stack) = OldLen + 1
        /\ Untouched({OldTop})

\* C8: a series_assign with in_place = true that completes leaves the stack
\* with the same length and references, the top table with column column_name
\* set to the register's values, every stack element below the top as it was,
\* the register as it was, and reports the repr of the written-to top table.
\* Fails when a lower stack position holds the same object as the top.
C8_InPlaceWritesTopOnly ==
    (last.kind = "series_assign" /\ InPlaceIs(TRUE) /\ raised = "none") =>
        /\ stack = last.stack
        /\ heap[OldTop] =
              WithColumn(last.heap[OldTop], Get(last.input, "column_name"), RegisterValue)
        /\ \A i \in 1..(OldLen - 1) : heap[stack[i]] = last.heap[stack[i]]
        /\ series = last.series /\ Untouched({series})
        /\ ResultTurnAppended /\ ResultText = Repr(heap, OldTop)

\* C9: after two series_assign calls with in_place = false in a row, the stack
\* is two longer than before the first; the table second from the top is the
\* table that was on top before the second call, unaltered; the table below it
\* is the table that was on top before the first call, unaltered.
C9_CopyPreservesOriginal ==
    (/\ before.kind = "series_assign"
     /\ Has(before.input, "in_place") /\ ~Get(before.input, "in_place")
     /\ last.kind = "series_assign" /\ InPlaceIs(FALSE) /\ raised = "none") =>
        LET n == Len(stack)
            first == before.stack[Len(before.stack)]
        IN /\ n = Len(before.stack) + 2
           /\ stack[n - 1] = OldTop /\ heap[OldTop] = last.heap[OldTop]
           /\ stack[n - 2] = first /\ heap[first] = before.heap[first]
           /\ Cardinality({stack[n], stack[n - 1], stack[n - 2]}) = 3
C9_Witness ==
    /\ before.kind = "series_assign"
    /\ Has(before.input, "in_place") /\ ~Get(before.input, "in_place")
    /\ last.kind = "series_assign" /\ InPlaceIs(FALSE) /\ raised = "none"
    /\ series # None
    /\ Len(stack) = 3

\* C10: pop on a non-empty stack removes exactly the top reference, whatever
\* it points to, and reports that element's repr: the step completes with its
\* tool-result turn, the remaining references and their tables and the
\* register are as before; a one-element stack becomes empty.
C10_PopRemovesTop ==
    (last.kind = "pop" /\ OldLen > 0) =>
        /\ raised = "none" /\ ResultTurnAppended
        /\ ResultText = Repr(last.heap, OldTop)
        /\ stack = SubSeq(last.stack, 1, OldLen - 1)
        /\ Untouched(Range(stack))
        /\ series = last.series /\ Untouched({series})
C10_Witness ==
    /\ last.kind = "pop" /\ OldLen = 1
    /\ stack = <<>>
    /\ before.kind = "pop" /\ before.heap[before.stack[Len(before.stack)]].kind = "DataFrameGroupBy"

\* C11: in every reachable state in which the tool-call flag is true, the
\* stack holds at least one element.  pop has no guard, so a pop on the
\* one-element stack leaves an empty stack with the flag true.
C11_StackNeverEmptyWhileActive == tool_call => Len(stack) >= 1

\* The stack part and the register part of the snapshot in the history's
\* latest environment turn (the initial turn or a tool-result turn).
LatestSnapshot ==
    LET i == Max({j \in 1..Len(messages) : messages[j].role = "user"})
        block == messages[i].content[1]
    IN IF block.type = "text" THEN block.text
       ELSE block.content[Len(block.content)].text.state

\* C12: the snapshot of the initial turn and of every tool-result turn lists
\* every stack element once, from the top down; the block of the element k
\* below the top is labelled k (the top is labelled 0); the register's repr
\* follows.  The code labels a block with its enumerate() index, which counts
\* from the bottom: on a stack of two the top is labelled 1.
C12_SnapshotTopRelativeLabels ==
    LastMsg.role = "user" =>
        LET blocks == LatestSnapshot.stack
            N == Len(stack)
        IN /\ Len(blocks) = N
           /\ \A k \in 0..(N - 1) :
                 /\ blocks[k + 1].text = Repr(heap, stack[N - k])
                 /\ blocks[k + 1].n = k
           /\ LatestSnapshot.register = Repr(heap, series)

\* Whether a turn of the history contains a tool invocation, and the ids of
\* the invocations it contains.
HasToolUse(turn) == \E i \in 1..Len(turn.content) : turn.content[i].type = "tool_use"
ToolUseIds(turn) == {turn.content[i].id : i \in {j \in 1..Len(turn.content) :
                                                    turn.content[j].type = "tool_use"}}
\* Turn i of the history is followed by exactly one tool-result turn, which
\* carries the id of an invocation of turn i.
Answered(i) ==
    /\ i < Len(messages)
    /\ messages[i + 1].role = "user"
    /\ Len(messages[i + 1].content) = 1
    /\ messages[i + 1].content[1].type = "tool_result"
    /\ messages[i + 1].content[1].tool_use_id \in ToolUseIds(messages[i])
    /\ i + 2 <= Len(messages) => messages[i + 2].role = "assistant"

\* C13: the history is append-only, and in every state every model turn that
\* contains a tool invocation is followed by exactly one tool-result turn
\* carrying that invocation's id.  Fails when the error of a pop or a
\* series_assign escapes step(): the model's turn was appended, the
\* tool-result turn is not.
C13_TurnProtocol ==
    /\ [][/\ Len(messages') >= Len(messages)
          /\ SubSeq(messages', 1, Len(messages)) = messages]_vars
    /\ [](\A i \in 1..Len(messages) :
             (messages[i].role = "assistant" /\ HasToolUse(messages[i])) => Answered(i))

\* The model's turn that a step appends to the history.
NewTurn == messages'[Len(messages) + 1]

\* C14: every step appends the model's turn and sets the tool-call flag to
\* whether that turn contains a tool invocation; a step whose turn contains
\* none appends only that turn and leaves the stack, the register, the tables
\* and the step log as they were.
C14_FreeTextStep ==
    [][/\ Len(messages') > Len(messages)
       /\ NewTurn.role = "assistant"
       /\ tool_call' = HasToolUse(NewTurn)
       /\ ~HasToolUse(NewTurn) =>
             /\ tool_call' = FALSE
             /\ messages' = Append(messages, NewTurn)
             /\ UNCHANGED <<stack, series, steps, heap>>]_vars
C14_Witness ==
    /\ last.kind = "text" /\ ~tool_call
    /\ LastMsg.role = "assistant" /\ ~HasToolUse(LastMsg)
    /\ Len(stack) > 1 /\ series # None /\ Len(steps) = 2

\* The latest step was a dataframe_operation whose target_frame is not
\* smaller than the length the stack had.
AddressedBeyondStack ==
    /\ last.kind = "dataframe_operation"
    /\ Get(last.input, "target_frame") >= OldLen
LastRecord == steps[Len(steps)]

\* C15: a dataframe_operation whose target_frame is not smaller than the stack
\* length (any such call on an empty stack included) is a caught error: the
\* step returns normally, the result text is the error's repr, the stack, the
\* tables and the register are as before, and the tool-result turn and one
\* step record, which holds the error text, are appended.
C15_AddressingFailureCaught ==
    [][AddressedBeyondStack' =>
          /\ raised' = "none"
          /\ last'.caught = "IndexError"
          /\ stack' = stack /\ series' = series /\ heap' = heap
          /\ Len(messages') = Len(messages) + 2
          /\ ResultTurnAppended'
          /\ ResultText' = ExcRepr("IndexError")
          /\ Len(steps') = Len(steps) + 1
          /\ SubSeq(steps', 1, Len(steps)) = steps
          /\ \E i \in 1..Len(LastRecord'.text) :
                LastRecord'.text[i] = Line("error", ExcRepr("IndexError"), <<>>)]_vars
C15_Witness ==
    /\ AddressedBeyondStack
    /\ OldLen = 0 /\ Get(last.input, "target_frame") = 0
    /\ before.kind = "pop"
    /\ raised = "none" /\ stack = <<>> /\ Len(steps) = 2

\* C16: once a step has received a model turn without a tool invocation (the
\* tool-call flag is false), no later call of step() changes the stack, the
\* register, the step log or the history.  step() never reads the flag: called
\* again, it queries the model, appends its turn and executes its tool call.
C16_TerminalState ==
    [][~tool_call => UNCHANGED <<stack, series, steps, messages>>]_vars

\* C17: for every executed tool call, of every kind, the step record appended
\* for it contains the result text that the tool-result turn feeds back to
\* the model: the repr of what the call produced, or the caught error's repr.
\* The code adds res to step_texts only for a caught error; for a table or a
\* series it adds the repr of the result's head(), and for pop, series_assign
\* and any other result it adds nothing.
C17_RecordHoldsResultText ==
    (Called /\ raised = "none") =>
        /\ ResultTurnAppended
        /\ \E i \in 1..Len(LastRecord.text) :
              /\ LastRecord.text[i].label \notin ToolNames \cup {"text"}
              /\ LastRecord.text[i].text = ResultText

\* The tool invocations received from the model, and the tool-result turns.
Invocations == {i \in 1..Len(messages) :
                  messages[i].role = "assistant" /\ HasToolUse(messages[i])}
ResultTurns == {i \in 2..Len(messages) :
                  messages[i].role = "user" /\ messages[i].content[1].type = "tool_result"}

\* C18: after any sequence of step() calls the number of step records equals
\* the number of tool invocations received and the number of tool-result
\* turns, and the history holds the initial turn, one turn per step() call
\* and one per step record.  Fails when the error of a pop or series_assign
\* escapes step(): the invocation was received, no record was appended.
C18_LogAndHistoryInStep ==
    /\ Len(steps) = Cardinality(Invocations)
    /\ Len(steps) = Cardinality(ResultTurns)
    /\ Len(messages) = 1 + NumSteps + Len(steps)

ProducedFigure == Succeeded /\ last.res = Text("Axes", NoData, 0)
\* The image blocks of the latest tool-result turn.
ResultImages == LET c == LastMsg.content[1].content
                IN {c[i].data : i \in {j \in 1..Len(c) : c[j].type = "image"}}

\* C20: the record and the tool-result turn of a step carry an image exactly
\* when the step's invocation left a figure in the plotting backend, and the
\* image is of that step's figure, never of a figure drawn in an earlier step.
\* step() never closes a figure; plt.show() closes it only in some backends,
\* and in the others a figure stays open and is captured again by every later
\* step.
C20_ImageOnlyOfOwnFigure ==
    (Called /\ raised = "none") =>
        /\ ResultTurnAppended
        /\ LastRecord.image # 0 <=> ProducedFigure
        /\ ResultImages = (IF ProducedFigure THEN {NumSteps} ELSE {})
        /\ LastRecord.image # 0 => LastRecord.image = NumSteps

====
